---- MODULE Spec2Model ----
(***************************************************************************)
(* souvenir: Memory (keyed memoizer, src/src/memory.rs) and Recall         *)
(* (one-time lazy evaluation, src/src/recall.rs).                          *)
(*                                                                         *)
(* Both structures own a caller-supplied FnMut closure.  The closure is    *)
(* opaque to the library: it may keep state of its own (the tests capture  *)
(* a counter), it may return a different output on every call, and it may  *)
(* fail.  The library's signatures (FnMut(&TIn) -> TOut, FnMut() -> TOut)  *)
(* leave a closure one way to fail that is not an output: a panic, which   *)
(* unwinds out of resolve / value at the call site.                        *)
(***************************************************************************)
EXTENDS Integers, Sequences, FiniteSets

\* ------------------------------------------------------------- bounds
MaxKey == 3
MaxCalls == 4
MaxDrift == 1
MaxValueCalls == 7

Keys == 1..MaxKey

\* ------------------------------------------------------------- values
\* Option<TOut>
None == <<>>
Some(v) == <<v>>
Unwrap(opt) == opt[1]

\* What a closure call ends in: a produced output, or a panic that unwinds.
Ok(v) == [ok |-> TRUE, val |-> v]
Panic == [ok |-> FALSE, val |-> 0]

\* The closures a caller may hand to new(): pure ones return the same output
\* for the same input on every call, total ones never panic.
Closures == [pure : BOOLEAN, total : BOOLEAN]

VARIABLES
    remember,   \* Memory.remember: the cache-miss closure
    values,     \* Memory.values: HashMap<TIn, TOut>
    counter,    \* state captured by the closure: how often it has been invoked
    computed,   \* log kept by the closure: <<[input, out]>> per invocation
    resolved,   \* log kept by the caller: <<[input, out, counter]>> per resolve
    evaluator,  \* Recall.evaluator: the lazy closure
    value,      \* Recall.value: Option<TOut>
    trigger,    \* state captured by the evaluator: how often it has been invoked
    evaluated,  \* log kept by the evaluator: <<out>> per invocation
    returned,   \* log kept by the caller: <<[out, trigger]>> per value()
    sharing,    \* TOut::clone yields a handle to the same allocation, not a copy
    lent,       \* the caller's TIn value borrowed by its last resolve: [at, key]
    origin,     \* per resolved content, where the value first resolved for it lives
    held,       \* the caller's TOut from its last resolve: [val, of, written]
    kept        \* the caller's TOut from its last value(): [val, of, written]

memVars == <<remember, values, counter, computed, resolved>>
recVars == <<evaluator, value, trigger, evaluated, returned>>
callerVars == <<sharing, lent, origin, held, kept>>
vars == <<remember, values, counter, computed, resolved,
          evaluator, value, trigger, evaluated, returned,
          sharing, lent, origin, held, kept>>

\* ============================================================== Memory

\* HashMap::new()
EmptyMap == [k \in {} |-> 0]

\* The test closures: |key: &u32| { counter += 1; key * 2 }
Double(key) == key * 2

\* (self.remember)(input): the ways one call of the closure can end.
RememberOutcomes(cl, input) ==
    (IF cl.pure
        THEN {Ok(Double(input))}
        ELSE {Ok(Double(input) + d) : d \in 0..MaxDrift})
    \cup (IF cl.total THEN {} ELSE {Panic})

\* Memory::new(remember)
NewMemory(cl) == [remember |-> cl, values |-> EmptyMap]

\* self.values.get(input): lookup by key equality
GetIgnoringKey(vals, input) ==
    IF DOMAIN vals = {} THEN None
    ELSE LET k == CHOOSE x \in DOMAIN vals : \A y \in DOMAIN vals : x <= y
         IN  Some(vals[k])

GetNever(vals, input) == None

Get(vals, input) ==
    IF input \in DOMAIN vals THEN Some(vals[input]) ELSE None

\* self.values.insert(key, value)
InsertNothing(vals, key, val) == vals

InsertKeyAsValue(vals, key, val) ==
    [x \in DOMAIN vals \cup {key} |-> IF x = key THEN key ELSE vals[x]]

InsertOnly(vals, key, val) == [x \in {key} |-> val]

InsertEvicting(vals, key, val) ==
    LET full == [x \in DOMAIN vals \cup {key} |-> IF x = key THEN val ELSE vals[x]]
        old == CHOOSE x \in DOMAIN vals : \A y \in DOMAIN vals : x <= y
    IN  IF DOMAIN vals = {} \/ key \in DOMAIN vals
            THEN full
            ELSE [x \in DOMAIN full \ {old} |-> full[x]]

Insert(vals, key, val) ==
    [x \in DOMAIN vals \cup {key} |-> IF x = key THEN val ELSE vals[x]]

\* A panic in the closure unwinds out of resolve before the insert runs.
UnwindPoisoned(vals, input) == Insert(vals, input, 0)

Unwind(vals, input) == vals

\* One entry of the caller's log: what resolve(input) ended in, and the
\* closure's counter as the caller reads it afterwards.
Resolved(input, out, cnt) == [input |-> input, out |-> out, counter |-> cnt]

\* resolve, Some(value) arm: value.clone()
HitRecompute(input, cached) ==
    \E result \in RememberOutcomes(remember, input) :
        /\ counter' = counter + 1
        /\ computed' = Append(computed, [input |-> input, out |-> result])
        /\ values' = IF result.ok THEN Insert(values, input, result.val)
                                  ELSE Unwind(values, input)
        /\ resolved' = Append(resolved, Resolved(input, result, counter + 1))
        /\ UNCHANGED remember

Hit(input, cached) ==
    /\ resolved' = Append(resolved, Resolved(input, Ok(cached), counter))
    /\ UNCHANGED <<remember, values, counter, computed>>

\* resolve, else arm: call the closure, insert clones of input and result
Miss(input) ==
    \E result \in RememberOutcomes(remember, input) :
        /\ counter' = counter + 1
        /\ computed' = Append(computed, [input |-> input, out |-> result])
        /\ values' = IF result.ok THEN Insert(values, input, result.val)
                                  ELSE Unwind(values, input)
        /\ resolved' = Append(resolved, Resolved(input, result, counter + 1))
        /\ UNCHANGED remember

\* Memory::resolve(&mut self, input: &TIn) -> TOut
resolve(input) ==
    /\ Len(resolved) < MaxCalls
    /\ LET found == Get(values, input)
       IN  IF found # None THEN Hit(input, Unwrap(found)) ELSE Miss(input)
    /\ UNCHANGED recVars

\* ============================================================== Recall

\* The captured key of the test evaluators: let key = 2; || key * 2
Key == 2

\* (self.evaluator)(): the ways one call of the evaluator can end.
EvaluatorOutcomes(cl) ==
    (IF cl.pure
        THEN {Ok(Double(Key))}
        ELSE {Ok(Double(Key) + d) : d \in 0..MaxDrift})
    \cup (IF cl.total THEN {} ELSE {Panic})

\* Recall::new(evaluator): stores the evaluator, calls it `invoked` times.
NewRecallEager(cl) ==
    [evaluator |-> cl, value |-> Some(Double(Key)), invoked |-> 1]

NewRecall(cl) == [evaluator |-> cl, value |-> None, invoked |-> 0]

\* A panic in the evaluator unwinds out of value() before the slot is set.
AbandonPoisoned(slot) == Some(0)

Abandon(slot) == slot

\* One entry of the caller's log: what value() ended in, and the evaluator's
\* trigger as the caller reads it afterwards.
Returned(out, cnt) == [out |-> out, trigger |-> cnt]

\* value(), Some(value) arm: (*value).clone()
StoredReevaluate(cached) ==
    \E result \in EvaluatorOutcomes(evaluator) :
        /\ trigger' = trigger + 1
        /\ evaluated' = Append(evaluated, result)
        /\ value' = IF result.ok THEN Some(result.val) ELSE Abandon(value)
        /\ returned' = Append(returned, Returned(result, trigger + 1))
        /\ UNCHANGED evaluator

Stored(cached) ==
    /\ returned' = Append(returned, Returned(Ok(cached), trigger))
    /\ UNCHANGED <<evaluator, value, trigger, evaluated>>

\* value(), None arm: call the evaluator, store a clone, return the value
EvaluateForget ==
    \E result \in EvaluatorOutcomes(evaluator) :
        /\ trigger' = trigger + 1
        /\ evaluated' = Append(evaluated, result)
        /\ returned' = Append(returned, Returned(result, trigger + 1))
        /\ UNCHANGED <<evaluator, value>>

Evaluate ==
    \E result \in EvaluatorOutcomes(evaluator) :
        /\ trigger' = trigger + 1
        /\ evaluated' = Append(evaluated, result)
        /\ value' = IF result.ok THEN Some(result.val) ELSE Abandon(value)
        /\ returned' = Append(returned, Returned(result, trigger + 1))
        /\ UNCHANGED evaluator

\* Recall::value(&mut self) -> TOut
Value ==
    /\ Len(returned) < MaxValueCalls
    /\ IF value # None THEN Stored(Unwrap(value)) ELSE Evaluate
    /\ UNCHANGED memVars

\* ============================================================== caller

\* Where the caller keeps its TIn values: two separately constructed values
\* live in two places, whatever their contents.
Places == {1, 2}

\* resolve(&input): Hash and Eq of a reference are those of the value it
\* refers to (derive(Hash, PartialEq, Eq) reads the fields), not of its place.
BorrowAddress(inst) == inst.at

Borrow(inst) == inst.key

\* value.clone() / result.clone(): the caller's TOut beside the one stored
\* under `cell`.  It has the stored value's content; it is a value of its own,
\* unless TOut's clone shares the allocation (Rc<RefCell<_>>), when writing
\* through the one changes the other.
CloneAlias(v, cell) == [val |-> v, of |-> Some(cell), written |-> FALSE]

Clone(v, cell) ==
    [val |-> v, of |-> IF sharing THEN Some(cell) ELSE None, written |-> FALSE]

\* What the caller writes into a TOut it holds: not what it was.
Scribbled(v) == v + MaxDrift + 1

\* The caller resolves the value it keeps at place p, of content k, and keeps
\* the output:  let out = memory.resolve(&input);
ResolveFrom(p, k) ==
    LET inst == [at |-> p, key |-> k]
        call == resolved'[Len(resolved')]
    IN  /\ resolve(Borrow(inst))
        /\ lent' = Some(inst)
        /\ held' = IF call.out.ok THEN Some(Clone(call.out.val, call.input))
                                  ELSE held
        /\ UNCHANGED <<sharing, kept>>

\* The caller notes where the value lives for which a content was first
\* resolved to an output.
NoteOrigin(p, k) ==
    origin' = IF resolved'[Len(resolved')].out.ok /\ k \notin DOMAIN origin
                 THEN [x \in DOMAIN origin \cup {k} |->
                          IF x = k THEN p ELSE origin[x]]
                 ELSE origin

\* The caller modifies the output it got from resolve.
WriteOutput ==
    /\ held # None
    /\ ~Unwrap(held).written
    /\ LET h == Unwrap(held)
           v == Scribbled(h.val)
       IN  /\ held' = Some([val |-> v, of |-> h.of, written |-> TRUE])
           /\ values' = IF h.of = None THEN values
                        ELSE [values EXCEPT ![Unwrap(h.of)] = v]
    /\ UNCHANGED <<remember, counter, computed, resolved>>
    /\ UNCHANGED recVars
    /\ UNCHANGED <<sharing, lent, origin, kept>>

\* The caller modifies the input it passed to resolve: the key in the map is
\* a clone of what the input was.
WriteInput(k) ==
    /\ lent # None
    /\ k # Unwrap(lent).key
    /\ lent' = Some([at |-> Unwrap(lent).at, key |-> k])
    /\ UNCHANGED memVars
    /\ UNCHANGED recVars
    /\ UNCHANGED <<sharing, origin, held, kept>>

\* The caller keeps the output of value():  let user1 = one_user.value();
ValueKept ==
    LET call == returned'[Len(returned')]
    IN  /\ Value
        /\ kept' = IF call.out.ok THEN Some(Clone(call.out.val, Key)) ELSE kept
        /\ UNCHANGED <<sharing, lent, origin, held>>

\* The caller modifies the output it got from value().
WriteKept ==
    /\ kept # None
    /\ ~Unwrap(kept).written
    /\ LET h == Unwrap(kept)
           v == Scribbled(h.val)
       IN  /\ kept' = Some([val |-> v, of |-> h.of, written |-> TRUE])
           /\ value' = IF h.of = None THEN value ELSE Some(v)
    /\ UNCHANGED <<evaluator, trigger, evaluated, returned>>
    /\ UNCHANGED memVars
    /\ UNCHANGED <<sharing, lent, origin, held>>

\* ======================================================= specifications

\* The closure of the tests: key * 2, every time.
TestClosure == [pure |-> TRUE, total |-> TRUE]

MemoryInitWith(cl) ==
    /\ remember = NewMemory(cl).remember
    /\ values = NewMemory(cl).values
    /\ counter = 0
    /\ computed = <<>>
    /\ resolved = <<>>

RecallInitWith(cl) ==
    /\ evaluator = NewRecall(cl).evaluator
    /\ value = NewRecall(cl).value
    /\ trigger = NewRecall(cl).invoked
    /\ evaluated = <<>>
    /\ returned = <<>>

\* The caller before its first call, with a TOut whose clone shares or not.
CallerInitWith(sh) ==
    /\ sharing = sh
    /\ lent = None
    /\ origin = EmptyMap
    /\ held = None
    /\ kept = None

MemoryInit == \E cl \in Closures : MemoryInitWith(cl)

RecallInit == \E cl \in Closures : RecallInitWith(cl)

CallerInit == \E sh \in BOOLEAN : CallerInitWith(sh)

Init == MemoryInit /\ RecallInit /\ CallerInit

\* A caller that only reads what resolve and value() return.
MemoryNext == \E input \in Keys : resolve(input) /\ UNCHANGED callerVars

RecallNext == Value /\ UNCHANGED callerVars

Next == MemoryNext \/ RecallNext

\* A Memory in use (the Recall beside it is constructed and left alone).
MemorySpecInit ==
    MemoryInit /\ RecallInitWith(TestClosure) /\ CallerInitWith(FALSE)

MemorySpec == MemorySpecInit /\ [][MemoryNext]_vars

\* A Recall in use (the Memory beside it is constructed and left alone).
RecallSpecInit ==
    MemoryInitWith(TestClosure) /\ RecallInit /\ CallerInitWith(FALSE)

RecallSpec == RecallSpecInit /\ [][RecallNext]_vars

\* A Memory resolved from values the caller keeps in different places.
InstanceNext ==
    \E p \in Places : \E k \in Keys : ResolveFrom(p, k) /\ NoteOrigin(p, k)

\* The closures of the tests (key * 2), and the ones that may panic instead.
InstanceSpecInit ==
    /\ \E cl \in {c \in Closures : c.pure} : MemoryInitWith(cl)
    /\ RecallInitWith(TestClosure)
    /\ CallerInitWith(FALSE)

InstanceSpec == InstanceSpecInit /\ [][InstanceNext]_vars

\* A caller that keeps what it gets and writes to it, and to what it passed.
\* It uses the Memory or the Recall: the two share no state.
CallerNext ==
    \/ /\ Len(returned) = 0
       /\ \/ \E p \in Places : \E k \in Keys :
                ResolveFrom(p, k) /\ UNCHANGED origin
          \/ WriteOutput
          \/ \E k \in Keys : WriteInput(k)
    \/ /\ Len(resolved) = 0
       /\ \/ ValueKept
          \/ WriteKept

CallerSpecInit ==
    MemoryInitWith(TestClosure) /\ RecallInitWith(TestClosure) /\ CallerInit

CallerSpec == CallerSpecInit /\ [][CallerNext]_vars

\* Both in use by one single-threaded caller.
Spec == Init /\ [][Next]_vars

\* ============================================== reading the two logs

\* The closure's counter as the caller read it before call i.
CounterBefore(i) == IF i = 1 THEN 0 ELSE resolved[i - 1].counter

\* Call i of resolve invoked the closure (the caller saw the counter move).
InvokedAt(i) == resolved[i].counter = CounterBefore(i) + 1

\* Call i is the first resolve of its key.
FirstOf(i) == \A j \in 1..(i - 1) : resolved[j].input # resolved[i].input

\* Call i is the first resolve of its key that returned a value.
FirstOk(i) ==
    /\ resolved[i].out.ok
    /\ \A j \in 1..(i - 1) :
          resolved[j].input = resolved[i].input => ~resolved[j].out.ok

KeysResolved == {resolved[i].input : i \in 1..Len(resolved)}

InvocationsFor(k) == {i \in 1..Len(computed) : computed[i].input = k}

NeverFailed == \A i \in 1..Len(computed) : computed[i].out.ok

\* ============================================================== claims

\* C1: Memory, compute never failing: compute is invoked exactly once per
\* distinct key, on the first resolve of that key and on no later one, so the
\* closure's counter equals the number of distinct keys resolved.
C1_OncePerDistinctKey ==
    NeverFailed =>
        /\ \A i \in 1..Len(resolved) : InvokedAt(i) <=> FirstOf(i)
        /\ \A i \in 1..Len(resolved) :
              ~FirstOf(i) => resolved[i].counter = CounterBefore(i)
        /\ \A k \in Keys :
              Cardinality(InvocationsFor(k)) = IF k \in KeysResolved THEN 1 ELSE 0
        /\ counter = Cardinality(KeysResolved)

\* The test it_only_runs_once: resolve(2), resolve(2), resolve(3) yields
\* 4, 4, 6 and the counter reads 2.
C1_Witness ==
    /\ NeverFailed
    /\ Len(resolved) = 3
    /\ resolved[1] = Resolved(2, Ok(4), 1)
    /\ resolved[2] = Resolved(2, Ok(4), 1)
    /\ resolved[3] = Resolved(3, Ok(6), 2)
    /\ counter = 2

\* C3: Memory: every resolve(k) after the first resolve(k) that returned a
\* value returns that same value, which is the one the closure produced on
\* that miss, whatever the closure would return now and whichever other keys
\* were resolved in between.
C3_FirstValueSticks ==
    \A i \in 1..Len(resolved) :
        FirstOk(i) =>
            /\ InvokedAt(i)
            /\ computed[resolved[i].counter] =
                  [input |-> resolved[i].input, out |-> resolved[i].out]
            /\ \A j \in (i + 1)..Len(resolved) :
                  resolved[j].input = resolved[i].input
                      => resolved[j].out = resolved[i].out

\* A closure that is not pure stored its drifted output for a key, another
\* key was resolved to a different output, and the first key was resolved again.
C3_Witness ==
    /\ ~remember.pure
    /\ Len(resolved) >= 3
    /\ resolved[1].out = Ok(Double(resolved[1].input) + 1)
    /\ resolved[2].input # resolved[1].input
    /\ resolved[2].out = Ok(Double(resolved[2].input))
    /\ resolved[3].input = resolved[1].input
    /\ resolved[3].out = resolved[1].out

\* C8: Memory with a deterministic closure f that never fails (here
\* f(x) = x * 2): every resolve(k) returns f(k), on the miss and on every
\* hit, and every cache entry (k, v) has v = f(k).
C8_ReturnsFOfKey ==
    (remember.pure /\ remember.total) =>
        /\ \A i \in 1..Len(resolved) :
              resolved[i].out = Ok(Double(resolved[i].input))
        /\ \A k \in DOMAIN values : values[k] = Double(k)

\* resolve(2) = 4 on the miss and on the hit, with (2, 4) in the cache.
C8_Witness ==
    /\ remember.pure /\ remember.total
    /\ Len(resolved) >= 2
    /\ resolved[1] = Resolved(2, Ok(4), 1)
    /\ resolved[2] = Resolved(2, Ok(4), 1)
    /\ values[2] = 4

\* ------------------------------------------------ steps of resolve

\* This step is one call of resolve.
ResolveStep == Len(resolved') = Len(resolved) + 1

\* The resolve calls made before this step on key k, and the latest of them.
EarlierOn(k) == {i \in 1..Len(resolved) : resolved[i].input = k}

LatestOn(k) == CHOOSE i \in EarlierOn(k) : \A j \in EarlierOn(k) : j <= i

\* C4: Memory: when the closure fails during resolve(k) the failure reaches
\* the caller and the cache is exactly what it was before the call, with no
\* entry for k; and a resolve(k) whose previous resolve(k) failed invokes the
\* closure again and ends in what that invocation ends in.
C4_Step ==
    LET call == resolved'[Len(resolved')]
        k == call.input
    IN  ResolveStep =>
          /\ ~call.out.ok =>
                /\ values' = values
                /\ k \notin DOMAIN values'
                /\ computed' = Append(computed, [input |-> k, out |-> Panic])
          /\ (EarlierOn(k) # {} /\ ~resolved[LatestOn(k)].out.ok) =>
                /\ counter' = counter + 1
                /\ computed' = Append(computed, [input |-> k, out |-> call.out])

C4_FailureNotCached == [][C4_Step]_vars

\* resolve(1) stored a value, resolve(2) failed, resolve(2) was retried and
\* stored a value; the entry of key 1 is intact.
C4_Witness ==
    /\ Len(resolved) = 3
    /\ resolved[1].input = 1 /\ resolved[1].out.ok
    /\ resolved[2] = Resolved(2, Panic, 2)
    /\ resolved[3].input = 2 /\ resolved[3].out.ok /\ resolved[3].counter = 3
    /\ DOMAIN values = {1, 2}
    /\ values[1] = resolved[1].out.val
    /\ values[2] = resolved[3].out.val

\* C6: Memory: a resolve(k2) for a key with no cache entry invokes the closure
\* with k2 and returns what it produced, whichever other keys are cached; a
\* resolve that returns without invoking the closure returns the entry stored
\* under its own key, which the closure produced for that key.
C6_Step ==
    LET call == resolved'[Len(resolved')]
        k == call.input
    IN  ResolveStep =>
          /\ k \notin DOMAIN values =>
                /\ counter' = counter + 1
                /\ computed' = Append(computed, [input |-> k, out |-> call.out])
          /\ counter' = counter =>
                /\ k \in DOMAIN values
                /\ call.out = Ok(values[k])
                /\ \E i \in InvocationsFor(k) : computed[i].out = call.out

C6_PerKeyIsolation == [][C6_Step]_vars

\* With key 1 cached, resolve(2) invoked the closure and returned another
\* value than the one cached for key 1.
C6_Witness ==
    /\ Len(resolved) >= 2
    /\ resolved[1].input = 1 /\ resolved[1].out.ok
    /\ resolved[2].input = 2 /\ resolved[2].out.ok
    /\ InvokedAt(2)
    /\ resolved[2].out # resolved[1].out
    /\ computed[2] = [input |-> 2, out |-> resolved[2].out]
    /\ values[1] = resolved[1].out.val

\* C10: Memory: a resolve(k) that finds k in the cache leaves the cache as it
\* is, does not invoke the closure (its counter and its log stay as they
\* are), and returns the cached value.
C10_Step ==
    LET call == resolved'[Len(resolved')]
        k == call.input
    IN  (ResolveStep /\ k \in DOMAIN values) =>
          /\ values' = values
          /\ counter' = counter
          /\ computed' = computed
          /\ remember' = remember
          /\ call.out = Ok(values[k])

C10_HitChangesNothing == [][C10_Step]_vars

\* Two keys are cached and the last resolve was a hit.
C10_Witness ==
    /\ Len(resolved) >= 3
    /\ Cardinality(DOMAIN values) = 2
    /\ ~InvokedAt(Len(resolved))
    /\ resolved[Len(resolved)].out = Ok(values[resolved[Len(resolved)].input])

\* ------------------------------------------------ reading Recall's logs

FailedCalls == {i \in 1..Len(returned) : ~returned[i].out.ok}

Successes == {i \in 1..Len(evaluated) : evaluated[i].ok}

\* This step is one call of value().
ValueStep == Len(returned') = Len(returned) + 1

\* C2 as stated: the evaluator executes at most once in the lifetime of the
\* instance, failures included.
C2_AtMostOnce == trigger <= 1

\* C2, amended: the evaluator completes successfully at most once and never
\* executes once it has; it executes at most once more than the number of
\* value() calls on which it failed.
C2_AtMostOnceBeyondFailures ==
    /\ Cardinality(Successes) <= 1
    /\ trigger <= Cardinality(FailedCalls) + 1
    /\ value # None => trigger = Cardinality(FailedCalls) + 1

\* The evaluator failed, was retried with success, and value() was called
\* again after that.
C2_Witness ==
    /\ Len(returned) >= 4
    /\ ~returned[1].out.ok
    /\ returned[2].out.ok
    /\ trigger = 2
    /\ value # None

\* C5: Recall: when the evaluator fails on a value() call made with the slot
\* empty, the slot stays empty; every value() call made with the slot empty
\* invokes the evaluator; and the slot changes only to hold the value of an
\* invocation that succeeded in that call.
C5_Step ==
    LET call == returned'[Len(returned')]
    IN  ValueStep =>
          /\ ~call.out.ok => (value = None /\ value' = None)
          /\ value = None =>
                /\ trigger' = trigger + 1
                /\ evaluated' = Append(evaluated, call.out)
          /\ value' # value =>
                /\ call.out.ok
                /\ value' = Some(call.out.val)
                /\ evaluated' = Append(evaluated, call.out)

C5_FailureNotStored == [][C5_Step]_vars

\* Two failures, each leaving the slot empty, then a retry that filled it.
C5_Witness ==
    /\ Len(returned) = 3
    /\ returned[1] = Returned(Panic, 1)
    /\ returned[2] = Returned(Panic, 2)
    /\ returned[3].out.ok /\ returned[3].trigger = 3
    /\ value = Some(returned[3].out.val)

\* C7: Recall whose evaluator has not failed: after n >= 1 calls of value()
\* every call has returned the value the evaluator produced in its single
\* invocation, made on the first call, and the trigger reads 1.
C7_SameValueOneEvaluation ==
    (Len(returned) >= 1 /\ \A i \in 1..Len(evaluated) : evaluated[i].ok) =>
        /\ trigger = 1
        /\ Len(evaluated) = 1
        /\ \A i \in 1..Len(returned) : returned[i] = Returned(evaluated[1], 1)

\* The test it_works_with_structs: three calls, one evaluation (here of an
\* evaluator that would not return the same value twice).
C7_Witness ==
    /\ ~evaluator.pure
    /\ Len(returned) = 3
    /\ returned[1].out = Ok(Double(Key) + 1)
    /\ returned[3].out = returned[1].out
    /\ trigger = 1

\* C9: Recall: after new and before the first value() call the evaluator has
\* not been invoked and the slot is empty; the evaluator is invoked only
\* inside a value() call.
C9_Step == (trigger' # trigger \/ evaluated' # evaluated) => ValueStep

C9_LazyConstruction ==
    /\ [](Len(returned) = 0 => (trigger = 0 /\ evaluated = <<>> /\ value = None))
    /\ [][C9_Step]_vars

\* A constructed Recall on which value() has not been called.
C9_Witness ==
    /\ Len(returned) = 0
    /\ evaluator \in Closures
    /\ value = None
    /\ trigger = 0

\* C11: Memory: a resolve(k) that misses and whose closure call succeeds
\* changes the cache in one way only: it adds the entry k -> result, the value
\* the caller gets; every entry that was there keeps its key and value, and
\* the cache has exactly one key more.
C11_Step ==
    LET call == resolved'[Len(resolved')]
        k == call.input
    IN  (ResolveStep /\ k \notin DOMAIN values /\ call.out.ok) =>
          /\ DOMAIN values' = DOMAIN values \cup {k}
          /\ Cardinality(DOMAIN values') = Cardinality(DOMAIN values) + 1
          /\ values'[k] = call.out.val
          /\ \A x \in DOMAIN values : values'[x] = values[x]

C11_MissAddsOneEntry == [][C11_Step]_vars

\* The last resolve missed and added its entry beside two older ones.
C11_Witness ==
    /\ Len(resolved) >= 3
    /\ Cardinality(DOMAIN values) = 3
    /\ InvokedAt(Len(resolved))
    /\ resolved[Len(resolved)].out.ok
    /\ FirstOf(Len(resolved))
    /\ \A i \in 1..Len(resolved) :
          values[resolved[i].input] = resolved[i].out.val

\* C12: Memory: the cache is empty after new and only grows: over any
\* sequence of resolve calls (hits, misses, failures) an entry that is present
\* stays present with the value it has, and the cache changes only in a
\* resolve step, for a key that was absent.
C12_Step ==
    /\ \A k \in DOMAIN values : k \in DOMAIN values' /\ values'[k] = values[k]
    /\ values' # values =>
          /\ ResolveStep
          /\ resolved'[Len(resolved')].input \notin DOMAIN values

C12_AppendOnly ==
    /\ [](Len(resolved) = 0 => values = EmptyMap)
    /\ [][C12_Step]_vars

\* Two keys have their entries, a resolve has failed and a resolve has hit.
C12_Witness ==
    /\ Cardinality(DOMAIN values) = 2
    /\ \E i \in 1..Len(resolved) : ~resolved[i].out.ok
    /\ \E i \in 1..Len(resolved) : resolved[i].out.ok /\ ~InvokedAt(i)

\* C13 as stated: the slot goes from empty to occupied on the first value
\* request, so it is occupied once value() has been called.
C13_OccupiedByFirstRequest == Len(returned) >= 1 => value # None

\* C13, amended: the slot is empty after new, goes from empty to occupied at
\* most once, in the first value() call whose evaluation succeeds (every
\* earlier call failed), and from then on never changes.
C13_Step ==
    /\ value # None => value' = value
    /\ (value = None /\ value' # None) =>
          /\ ValueStep
          /\ returned'[Len(returned')].out = Ok(Unwrap(value'))
          /\ \A i \in 1..Len(returned) : ~returned[i].out.ok

C13_SlotSetOnce ==
    /\ [](Len(returned) = 0 => value = None)
    /\ [](value # None <=> \E i \in 1..Len(returned) : returned[i].out.ok)
    /\ [][C13_Step]_vars

\* The first request failed, the second filled the slot with a value the
\* evaluator would not produce twice, and two more requests left it as it was.
C13_Witness ==
    /\ ~evaluator.pure
    /\ Len(returned) = 4
    /\ ~returned[1].out.ok
    /\ returned[2].out = Ok(Double(Key) + 1)
    /\ value = Some(Double(Key) + 1)
    /\ returned[4].out = returned[2].out

\* C16: Memory, closure allowed to fail: in every reachable state the cache
\* has as many entries as closure invocations have succeeded, and its key set
\* is the set of keys for which a resolve has returned a value; invocations
\* that failed left no entry.
C16_EntriesAreSuccesses ==
    /\ Cardinality(DOMAIN values)
          = Cardinality({i \in 1..Len(computed) : computed[i].out.ok})
    /\ DOMAIN values
          = {resolved[i].input : i \in {j \in 1..Len(resolved) : resolved[j].out.ok}}
    /\ \A i \in 1..Len(computed) :
          (~computed[i].out.ok /\ \A j \in InvocationsFor(computed[i].input) :
                                      ~computed[j].out.ok)
              => computed[i].input \notin DOMAIN values

\* Two invocations failed (for two keys), two succeeded, and the cache holds
\* two entries, none for the key whose only invocation failed.
C16_Witness ==
    /\ Len(computed) = 4
    /\ Cardinality({i \in 1..Len(computed) : ~computed[i].out.ok}) = 2
    /\ Cardinality(DOMAIN values) = 2
    /\ \E i \in 1..Len(computed) :
          /\ ~computed[i].out.ok
          /\ computed[i].input \notin DOMAIN values

\* C17: Recall, evaluator allowed to fail: in every reachable state the slot
\* is occupied exactly when an evaluation has succeeded, at most one
\* evaluation has succeeded, the number of evaluations is the number of failed
\* value() calls plus one if the slot is occupied, and no evaluation was made
\* after the one that succeeded (none with the slot occupied).
C17_SlotMatchesEvaluations ==
    /\ value # None <=> Successes # {}
    /\ Cardinality(Successes) <= 1
    /\ trigger = Cardinality(FailedCalls) + (IF value # None THEN 1 ELSE 0)
    /\ Len(evaluated) = trigger
    /\ \A i \in Successes : i = Len(evaluated) /\ value = Some(evaluated[i].val)

\* Three failed calls, then the evaluation that filled the slot, then hits.
C17_Witness ==
    /\ Cardinality(FailedCalls) = 3
    /\ value # None
    /\ trigger = 4
    /\ Len(returned) = 6

\* C14: Memory: hits go by key equality, not by identity: when the caller
\* resolves a value whose content was resolved to an output before from a
\* value kept in another place, the resolve finds the entry made then, returns
\* the output returned then, and does not invoke the closure.
C14_Step ==
    LET call == resolved'[Len(resolved')]
        inst == Unwrap(lent')
    IN  (ResolveStep /\ inst.key \in DOMAIN origin /\ origin[inst.key] # inst.at) =>
          /\ inst.key \in DOMAIN values
          /\ values' = values
          /\ counter' = counter
          /\ computed' = computed
          /\ call.out = Ok(values[inst.key])
          /\ \E i \in 1..Len(resolved) :
                /\ resolved[i].input = inst.key
                /\ FirstOk(i)
                /\ call.out = resolved[i].out

C14_EqualKeysHit == [][C14_Step]_vars

\* A value of content 3 kept in place 1 was resolved, then a value of another
\* content, then a value of content 3 kept in place 2: two invocations.
C14_Witness ==
    /\ Len(resolved) = 3
    /\ resolved[1] = Resolved(3, Ok(6), 1)
    /\ resolved[2].input = 1
    /\ resolved[3] = Resolved(3, Ok(6), 2)
    /\ origin[3] = 1
    /\ lent = Some([at |-> 2, key |-> 3])
    /\ counter = 2

C15_Step ==
    (~sharing /\ ~ResolveStep /\ ~ValueStep) =>
        (values' = values /\ value' = value)

====
